---- MODULE Spec2Model ----
(***************************************************************************)
(* SnlePosterior (sbi/inference/posteriors/snle_posterior.py): the         *)
(* posterior object of the likelihood-based methods, with its log_prob()   *)
(* and sample() methods, the default observation and the default MCMC      *)
(* configuration it stores, and the calls the tests make on it.            *)
(*                                                                         *)
(* A tensor is modelled by its shape (a sequence of dimension sizes) and a *)
(* payload val that tells two tensors of one shape apart.  The element     *)
(* type is not modelled.  Python's None is the record None.                *)
(***************************************************************************)
EXTENDS Integers, Sequences, FiniteSets, TLC

\* Largest size of one tensor dimension (of x, of theta, of sample_shape).
MaxDim == 2
\* Largest number of options in one mcmc_parameters dictionary.
MaxKeys == 1

None == [none |-> TRUE]

\* None where a string is expected (mcmc_method).
NoneStr == "None"

Tensor(shape, val) == [shape |-> shape, val |-> val]

\* Payloads that tell tensors of one shape apart.
TensorVals == {1, 2}

NoError == "ok"

\* The value of a call that returned v.
Returned(v) == [raised |-> NoError, value |-> v]

\* The value of a call that raised exception e.
Raised(e) == [raised |-> e, value |-> None]

(***************************************************************************)
(* Tensor helpers.                                                         *)
(***************************************************************************)

\* torch.Size(shape).numel(): the product of the dimensions, 1 for ().
RECURSIVE numel(_)
numel(shape) ==
    IF shape = <<>> THEN 1 ELSE Head(shape) * numel(Tail(shape))

\* Tensor.reshape((*lead, -1)): the last dimension is inferred from the
\* number of elements; torch raises RuntimeError when the -1 is ambiguous
\* (the other dimensions multiply to 0) or the sizes do not divide.
reshape_infer_last(tensor, lead) ==
    LET n == numel(tensor.shape)
        known == numel(lead)
    IN  IF known = 0 THEN Raised("RuntimeError")
        ELSE IF n % known # 0 THEN Raised("RuntimeError")
        ELSE Returned(Tensor(lead \o <<n \div known>>, tensor.val))

\* atleast_2d_float32_tensor: a scalar becomes (1, 1), a vector (n,) becomes
\* (1, n), higher ranks are kept.
atleast_2d_float32_tensor(x) ==
    IF Len(x.shape) = 0 THEN Tensor(<<1, 1>>, x.val)
    ELSE IF Len(x.shape) = 1 THEN Tensor(<<1>> \o x.shape, x.val)
    ELSE x

\* ensure_theta_batched: theta coerced to at-least-2D batch form.
ensure_theta_batched(theta) ==
    IF Len(theta.shape) = 1 THEN Tensor(<<1>> \o theta.shape, theta.val)
    ELSE theta

(***************************************************************************)
(* The collaborators: network, prior, MCMC backend.                        *)
(***************************************************************************)

\* The methods the MCMC backend supports.
McmcMethods == {"slice_np", "slice_np_vectorized", "slice", "hmc", "nuts"}

\* The options of an MCMC configuration.
McmcOptions ==
    {"thin", "warmup_steps", "num_chains", "init_strategy",
     "init_strategy_num_candidates"}

\* net.log_prob(x, theta): a fixed function of its two arguments, in this
\* order, not symmetric in them.
net_log_prob(x, theta) == 3 * x.val + theta.val

\* prior.log_prob(theta).
prior_log_prob(theta) == 0 - (theta.val * theta.val)

\* NeuralPosterior._sample_posterior_mcmc: rejects an unsupported method,
\* fails with SamplingError when a chain does not mix, and otherwise
\* returns a flat batch of num_samples draws.
sample_posterior_mcmc(self, x, num_samples, show_progress_bars, mcmc_method, kwargs, mixes) ==
    IF mcmc_method \notin McmcMethods THEN Raised("ConfigurationError")
    ELSE IF ~mixes THEN Raised("SamplingError")
    ELSE Returned(Tensor(<<num_samples, self.parameter_dim>>, x.val))

(***************************************************************************)
(* NeuralPosterior: the state and the helpers SnlePosterior inherits.      *)
(***************************************************************************)

\* NeuralPosterior._x_else_default_x: the supplied x, else the stored
\* default, else ConfigurationError.
x_else_default_x(self, x) ==
    IF x # None THEN Returned(x)
    ELSE IF self.default_x = None THEN Raised("ConfigurationError")
    ELSE Returned(self.default_x)

\* NeuralPosterior._ensure_single_x: the batch dimension of x must be 1.
ensure_single_x(x) ==
    IF x.shape[1] = 1 THEN Returned(None) ELSE Raised("ValidationError")

\* NeuralPosterior._ensure_x_consistent_with_default_x: with a default set,
\* the shape of x must equal the default's.
ensure_x_consistent_with_default_x(self, x) ==
    IF self.default_x # None /\ x.shape # self.default_x.shape
    THEN Raised("ValidationError")
    ELSE Returned(None)

\* NeuralPosterior._build_theta_x_for_log_prob_: theta batched, x resolved.
build_theta_x_for_log_prob(self, theta, x) ==
    LET r == x_else_default_x(self, x)
    IN  IF r.raised # NoError THEN r
        ELSE Returned([theta |-> ensure_theta_batched(theta), x |-> r.value])

\* NeuralPosterior.set_default_x: stores the processed (2D) observation.
set_default_x(self, x) ==
    [self EXCEPT !.default_x = atleast_2d_float32_tensor(x)]

\* NeuralPosterior.set_mcmc_method.
set_mcmc_method(self, method) == [self EXCEPT !.mcmc_method = method]

\* NeuralPosterior.set_mcmc_parameters.
set_mcmc_parameters(self, parameters) ==
    [self EXCEPT !.mcmc_parameters = parameters]

(***************************************************************************)
(* SnlePosterior.                                                          *)
(***************************************************************************)

\* What one call leaves behind: the instance after it, the exception it
\* raised or "ok", the value it returned, the calls it made in order, the
\* observation it resolved, and the arguments it gave the MCMC backend.
Outcome(self, raised, ret, steps, x, backend) ==
    [self |-> self, raised |-> raised, ret |-> ret, steps |-> steps,
     x |-> x, backend |-> backend]

\* SnlePosterior.__init__: the defaults of the constructor; no default
\* observation yet, and mcmc_parameters=None kept as the empty dictionary.
new_posterior(parameter_dim_) ==
    [default_x |-> None, mcmc_method |-> "slice_np", mcmc_parameters |-> <<>>,
     parameter_dim |-> parameter_dim_]

\* log_prob() with the network's arguments swapped: net.log_prob(theta, x).
log_prob_theta_first(self, theta, x, track_gradients) ==
    LET b == build_theta_x_for_log_prob(self, theta, x)
    IN  IF b.raised # NoError
        THEN Outcome(self, b.raised, None, <<"_build_theta_x_for_log_prob_">>,
                     None, None)
        ELSE LET th == b.value.theta
                 xx == b.value.x
             IN  Outcome(self, NoError,
                     [shape |-> <<th.shape[1]>>,
                      val |-> net_log_prob(th, xx) + prior_log_prob(th),
                      requires_grad |-> track_gradients],
                     <<"_build_theta_x_for_log_prob_", "warn", "net.log_prob",
                       "prior.log_prob">>,
                     xx, None)

\* SnlePosterior.log_prob.
log_prob(self, theta, x, track_gradients) ==
    LET b == build_theta_x_for_log_prob(self, theta, x)
    IN  IF b.raised # NoError
        THEN Outcome(self, b.raised, None, <<"_build_theta_x_for_log_prob_">>,
                     None, None)
        ELSE LET th == b.value.theta
                 xx == b.value.x
             IN  Outcome(self, NoError,
                     [shape |-> <<th.shape[1]>>,
                      val |-> net_log_prob(xx, th) + prior_log_prob(th),
                      requires_grad |-> track_gradients],
                     <<"_build_theta_x_for_log_prob_", "warn", "net.log_prob",
                       "prior.log_prob">>,
                     xx, None)

\* sample_x without the call of _ensure_single_x.
sample_x_batched(self, x) ==
    LET r == x_else_default_x(self, x)
        s1 == <<"_x_else_default_x">>
        s3 == s1 \o <<"_ensure_x_consistent_with_default_x">>
    IN  IF r.raised # NoError
        THEN [raised |-> r.raised, x |-> None, steps |-> s1]
        ELSE
        LET x2 == atleast_2d_float32_tensor(r.value)
            consistent == ensure_x_consistent_with_default_x(self, x2)
        IN  IF consistent.raised # NoError
            THEN [raised |-> consistent.raised, x |-> x2, steps |-> s3]
            ELSE [raised |-> NoError, x |-> x2, steps |-> s3]

\* sample_x without the call of _ensure_x_consistent_with_default_x.
sample_x_any_shape(self, x) ==
    LET r == x_else_default_x(self, x)
        s1 == <<"_x_else_default_x">>
        s2 == s1 \o <<"_ensure_single_x">>
    IN  IF r.raised # NoError
        THEN [raised |-> r.raised, x |-> None, steps |-> s1]
        ELSE
        LET x2 == atleast_2d_float32_tensor(r.value)
            single == ensure_single_x(x2)
        IN  IF single.raised # NoError
            THEN [raised |-> single.raised, x |-> x2, steps |-> s2]
            ELSE [raised |-> NoError, x |-> x2, steps |-> s2]

\* sample_x that conditions on the stored default whenever there is one,
\* whatever x the caller gave.
sample_x_default_first(self, x) ==
    LET r == IF self.default_x # None THEN Returned(self.default_x)
             ELSE x_else_default_x(self, x)
        s1 == <<"_x_else_default_x">>
        s2 == s1 \o <<"_ensure_single_x">>
        s3 == s2 \o <<"_ensure_x_consistent_with_default_x">>
    IN  IF r.raised # NoError
        THEN [raised |-> r.raised, x |-> None, steps |-> s1]
        ELSE
        LET x2 == atleast_2d_float32_tensor(r.value)
            single == ensure_single_x(x2)
            consistent == ensure_x_consistent_with_default_x(self, x2)
        IN  IF single.raised # NoError
            THEN [raised |-> single.raised, x |-> x2, steps |-> s2]
            ELSE IF consistent.raised # NoError
            THEN [raised |-> consistent.raised, x |-> x2, steps |-> s3]
            ELSE [raised |-> NoError, x |-> x2, steps |-> s3]

\* sample(), the observation: resolved, coerced to 2D and checked.
sample_x(self, x) ==
    LET r == x_else_default_x(self, x)
        s1 == <<"_x_else_default_x">>
        s2 == s1 \o <<"_ensure_single_x">>
        s3 == s2 \o <<"_ensure_x_consistent_with_default_x">>
    IN  IF r.raised # NoError
        THEN [raised |-> r.raised, x |-> None, steps |-> s1]
        ELSE
        LET x2 == atleast_2d_float32_tensor(r.value)
            single == ensure_single_x(x2)
            consistent == ensure_x_consistent_with_default_x(self, x2)
        IN  IF single.raised # NoError
            THEN [raised |-> single.raised, x |-> x2, steps |-> s2]
            ELSE IF consistent.raised # NoError
            THEN [raised |-> consistent.raised, x |-> x2, steps |-> s3]
            ELSE [raised |-> NoError, x |-> x2, steps |-> s3]

\* sample_mcmc_config that ignores the caller's mcmc_method.
sample_mcmc_config_stored_method(self, mcmc_method, mcmc_parameters) ==
    [mcmc_method |-> self.mcmc_method,
     mcmc_parameters |-> IF mcmc_parameters # None THEN mcmc_parameters
                         ELSE self.mcmc_parameters]

\* sample(), the MCMC configuration: the caller's arguments, else the
\* stored defaults.
sample_mcmc_config(self, mcmc_method, mcmc_parameters) ==
    [mcmc_method |-> IF mcmc_method # NoneStr THEN mcmc_method
                     ELSE self.mcmc_method,
     mcmc_parameters |-> IF mcmc_parameters # None THEN mcmc_parameters
                         ELSE self.mcmc_parameters]

\* sample(), the draws: num_samples draws from the MCMC backend, reshaped
\* to (*sample_shape, -1).
sample_draw(self, sample_shape, x, show_progress_bars, config, mixes) ==
    LET num_samples == numel(sample_shape)
        backend == [x |-> x, num_samples |-> num_samples,
                    show_progress_bars |-> show_progress_bars,
                    mcmc_method |-> config.mcmc_method,
                    kwargs |-> config.mcmc_parameters]
        samples == sample_posterior_mcmc(self, x, num_samples,
                       show_progress_bars, config.mcmc_method,
                       config.mcmc_parameters, mixes)
    IN  IF samples.raised # NoError
        THEN [raised |-> samples.raised, ret |-> None,
              steps |-> <<"_sample_posterior_mcmc">>, backend |-> backend]
        ELSE LET shaped == reshape_infer_last(samples.value, sample_shape)
             IN  [raised |-> shaped.raised, ret |-> shaped.value,
                  steps |-> <<"_sample_posterior_mcmc", "reshape">>,
                  backend |-> backend]

\* sample() that runs the MCMC backend on the resolved x before it checks x.
sample_mcmc_first(self, sample_shape, x, show_progress_bars, sample_with_mcmc, mcmc_method, mcmc_parameters, mixes) ==
    LET r == x_else_default_x(self, x)
    IN  IF r.raised # NoError
        THEN Outcome(self, r.raised, None, <<"_x_else_default_x">>, None, None)
        ELSE
        LET x2 == atleast_2d_float32_tensor(r.value)
            config == sample_mcmc_config(self, mcmc_method, mcmc_parameters)
            drawn == sample_draw(self, sample_shape, x2, show_progress_bars,
                                 config, mixes)
            checked == sample_x(self, x)
            steps == <<"_x_else_default_x">> \o drawn.steps \o Tail(checked.steps)
        IN  IF drawn.raised # NoError
            THEN Outcome(self, drawn.raised, None,
                         <<"_x_else_default_x">> \o drawn.steps, x2, drawn.backend)
            ELSE IF checked.raised # NoError
            THEN Outcome(self, checked.raised, None, steps, x2, drawn.backend)
            ELSE Outcome(self, NoError, drawn.ret, steps, x2, drawn.backend)

\* sample() that keeps the x it sampled with as the new default.
sample_sets_default_x(self, sample_shape, x, show_progress_bars, sample_with_mcmc, mcmc_method, mcmc_parameters, mixes) ==
    LET checked == sample_x(self, x)
    IN  IF checked.raised # NoError
        THEN Outcome(self, checked.raised, None, checked.steps, checked.x, None)
        ELSE
        LET config == sample_mcmc_config(self, mcmc_method, mcmc_parameters)
            drawn == sample_draw(self, sample_shape, checked.x,
                                 show_progress_bars, config, mixes)
        IN  Outcome([self EXCEPT !.default_x = checked.x], drawn.raised,
                    drawn.ret, checked.steps \o drawn.steps, checked.x,
                    drawn.backend)

\* SnlePosterior.sample.
sample(self, sample_shape, x, show_progress_bars, sample_with_mcmc, mcmc_method, mcmc_parameters, mixes) ==
    LET checked == sample_x(self, x)
    IN  IF checked.raised # NoError
        THEN Outcome(self, checked.raised, None, checked.steps, checked.x, None)
        ELSE
        LET config == sample_mcmc_config(self, mcmc_method, mcmc_parameters)
            drawn == sample_draw(self, sample_shape, checked.x,
                                 show_progress_bars, config, mixes)
        IN  Outcome(self, drawn.raised, drawn.ret, checked.steps \o drawn.steps,
                    checked.x, drawn.backend)

\* The parameters of sample().
SampleParams ==
    {"sample_shape", "x", "show_progress_bars", "sample_with_mcmc",
     "mcmc_method", "mcmc_parameters"}

\* A keyword argument of a call, or the parameter's default when not given.
Arg(kwargs, name, default) ==
    IF name \in DOMAIN kwargs THEN kwargs[name] ELSE default

\* posterior.sample(**kwargs): Python binds the keywords to the parameters
\* of sample() and raises TypeError for a keyword that is no parameter.
call_sample(self, kwargs, mixes) ==
    IF ~(DOMAIN kwargs \subseteq SampleParams)
    THEN Outcome(self, "TypeError", None, <<>>, None, None)
    ELSE sample(self,
                Arg(kwargs, "sample_shape", <<>>),
                Arg(kwargs, "x", None),
                Arg(kwargs, "show_progress_bars", TRUE),
                Arg(kwargs, "sample_with_mcmc", None),
                Arg(kwargs, "mcmc_method", NoneStr),
                Arg(kwargs, "mcmc_parameters", None),
                mixes)

(***************************************************************************)
(* The state: one posterior instance, the call its caller is looking at    *)
(* (Idle between two calls), and sampled_x, the 2D shape of the            *)
(* observation of the latest sample() call since the default was set       *)
(* (None when there was none).                                             *)
(***************************************************************************)

VARIABLES default_x, mcmc_method, mcmc_parameters, parameter_dim, call, sampled_x

vars == <<default_x, mcmc_method, mcmc_parameters, parameter_dim, call, sampled_x>>

\* The instance, as the methods see it.
Self ==
    [default_x |-> default_x, mcmc_method |-> mcmc_method,
     mcmc_parameters |-> mcmc_parameters, parameter_dim |-> parameter_dim]

\* The instance becomes self_.
Store(self_) ==
    /\ default_x' = self_.default_x
    /\ mcmc_method' = self_.mcmc_method
    /\ mcmc_parameters' = self_.mcmc_parameters
    /\ parameter_dim' = self_.parameter_dim

\* No call is being looked at: the caller is between two calls.
Idle ==
    [op |-> "idle", args |-> None, raised |-> NoError, ret |-> None,
     steps |-> <<>>, x |-> None, backend |-> None, prev |-> None]

\* The caller calls method op with arguments args, and the call ends as out.
Step(op, args, out) ==
    /\ call = Idle
    /\ Store(out.self)
    /\ call' = [op |-> op, args |-> args, raised |-> out.raised,
                ret |-> out.ret, steps |-> out.steps, x |-> out.x,
                backend |-> out.backend, prev |-> sampled_x]

\* All shapes of the given ranks with dimensions in dims.
Shapes(ranks, dims) ==
    {<<>> : r \in ranks \cap {0}}
    \cup {<<a>> : a \in {d \in dims : 1 \in ranks}}
    \cup {<<a, b>> : a \in {d \in dims : 2 \in ranks}, b \in dims}

\* Observations: scalars, vectors and batches.
Xs == {Tensor(s, v) : s \in Shapes(0..2, 1..MaxDim), v \in TensorVals}

\* Requested sample shapes: (), (n,), (n, m), a dimension may be 0.
SampleShapes == Shapes(0..2, 0..MaxDim)

\* Parameter batches for a prior of dimension dim: one theta or a batch.
Thetas(dim) ==
    {Tensor(s, v) : s \in {<<dim>>} \cup {<<n, dim>> : n \in 1..MaxDim},
                    v \in TensorVals}

\* The values an MCMC option takes.
OptionValues(k) == IF k = "init_strategy" THEN {"prior", "sir"} ELSE {1, 2}

\* The dictionaries with exactly the keys K.
RECURSIVE DictsOver(_)
DictsOver(K) ==
    IF K = {} THEN {<<>>}
    ELSE LET k == CHOOSE k \in K : TRUE
         IN  {d @@ (k :> v) : d \in DictsOver(K \ {k}), v \in OptionValues(k)}

\* The mcmc_parameters dictionaries of at most MaxKeys options.
Dicts ==
    UNION {DictsOver(K) : K \in {K \in SUBSET McmcOptions : Cardinality(K) <= MaxKeys}}

\* Method strings: the supported ones and the test's "slice-np".
MethodStrings == McmcMethods \cup {"slice-np"}

\* The parameter dimensions the tests run with.
NumDims == {1, 3}

Min(S) == CHOOSE m \in S : \A n \in S : m <= n

(***************************************************************************)
(* The operations.                                                         *)
(***************************************************************************)

\* posterior.sample(sample_shape, x, mcmc_method=..., mcmc_parameters=...).
Sample(SS, XS, MS, PS) ==
    /\ call = Idle
    /\ \E ss \in SS, x \in XS, mm \in MS, mp \in PS, mixes \in BOOLEAN :
        LET kwargs == [sample_shape |-> ss, x |-> x, mcmc_method |-> mm,
                       mcmc_parameters |-> mp]
        IN  \E out \in {call_sample(Self, kwargs, mixes)} :
                /\ Step("sample", kwargs, out)
                /\ sampled_x' = IF out.x # None THEN [shape |-> out.x.shape]
                                ELSE sampled_x

\* posterior.sample(num_samples=n), the call the tests make.
SampleNumSamples ==
    /\ call = Idle
    /\ \E n \in 1..(MaxDim * MaxDim), mixes \in BOOLEAN :
        LET kwargs == [num_samples |-> n]
        IN  \E out \in {call_sample(Self, kwargs, mixes)} :
                /\ Step("sample", kwargs, out)
                /\ sampled_x' = IF out.x # None THEN [shape |-> out.x.shape]
                                ELSE sampled_x

\* posterior.log_prob(theta, x, track_gradients).
LogProb(XS) ==
    /\ call = Idle
    /\ \E theta \in Thetas(parameter_dim), x \in XS, tg \in BOOLEAN :
        \E out \in {log_prob(Self, theta, x, tg)} :
            /\ Step("log_prob", [theta |-> theta, x |-> x, track_gradients |-> tg], out)
            /\ UNCHANGED sampled_x

\* posterior.set_default_x(x): the default is replaced.
SetDefaultX(XS) ==
    /\ call = Idle
    /\ \E x \in XS :
        /\ Step("set_default_x", [x |-> x],
                Outcome(set_default_x(Self, x), NoError, None, <<>>, None, None))
        /\ sampled_x' = None

\* posterior.set_mcmc_method(method).
SetMcmcMethod ==
    /\ call = Idle
    /\ \E m \in MethodStrings :
        /\ Step("set_mcmc_method", [method |-> m],
                Outcome(set_mcmc_method(Self, m), NoError, None, <<>>, None, None))
        /\ UNCHANGED sampled_x

\* posterior.set_mcmc_parameters(parameters).
SetMcmcParameters ==
    /\ call = Idle
    /\ \E d \in Dicts :
        /\ Step("set_mcmc_parameters", [parameters |-> d],
                Outcome(set_mcmc_parameters(Self, d), NoError, None, <<>>, None, None))
        /\ UNCHANGED sampled_x

\* The caller has the result (or the exception) and goes on.
Return ==
    /\ call # Idle
    /\ call' = Idle
    /\ UNCHANGED <<default_x, mcmc_method, mcmc_parameters, parameter_dim, sampled_x>>

\* A posterior constructed for a prior of dimension dim.
Constructed(dim) ==
    /\ default_x = new_posterior(dim).default_x
    /\ mcmc_method = new_posterior(dim).mcmc_method
    /\ mcmc_parameters = new_posterior(dim).mcmc_parameters
    /\ parameter_dim = new_posterior(dim).parameter_dim
    /\ call = Idle
    /\ sampled_x = None

(***************************************************************************)
(* Spec: every observation, sample shape and theta; the MCMC               *)
(* configuration is the constructor's, overridden per call.                *)
(***************************************************************************)

\* The x argument of a call: an observation, or None.
XArgs == {x \in Xs \cup {None} : TRUE}

\* The overrides of the MCMC configuration a call of Spec may give.
MethodOverrides == {NoneStr, "nuts", "slice-np"}

ParameterOverrides == {p \in {None} \cup DictsOver({"thin"}) : TRUE}

\* The input sets of Spec are finite and not empty.
Inputs ==
    /\ Cardinality(Xs) > 0
    /\ Cardinality(XArgs) > 0
    /\ Cardinality(SampleShapes) > 0
    /\ Cardinality(MethodOverrides) > 0
    /\ Cardinality(ParameterOverrides) > 0
    /\ Cardinality(McmcMethods) > 0
    /\ Cardinality(McmcOptions) > 0
    /\ Cardinality(SampleParams) > 0

Init ==
    /\ Inputs
    /\ \E dim \in NumDims : Constructed(dim)

Next ==
    \/ Sample(SampleShapes, XArgs, MethodOverrides, ParameterOverrides)
    \/ SampleNumSamples
    \/ LogProb(XArgs)
    \/ SetDefaultX(Xs)
    \/ Return

Spec == Init /\ [][Next]_vars

(***************************************************************************)
(* SpecMcmc: every stored and every overriding MCMC configuration; the     *)
(* observation is missing, a single one, or a batch of two.                *)
(***************************************************************************)

\* The x argument of a sample() call of SpecMcmc: None, a vector, a
\* two-row batch.
McmcXArgs == {None, Tensor(<<1>>, 1), Tensor(<<2, 1>>, 1)}

\* The x argument of a log_prob() call of SpecMcmc.
McmcLogProbXArgs == {None, Tensor(<<1>>, 2)}

\* The default observation SpecMcmc sets.
McmcDefaultXs == {Tensor(<<1>>, 1)}

\* The sample shapes of SpecMcmc.
McmcSampleShapes == {<<2>>}

\* The mcmc_method and mcmc_parameters arguments of a call.
MethodArgs == {m \in MethodStrings \cup {NoneStr} : TRUE}

ParameterArgs == {p \in Dicts \cup {None} : TRUE}

\* The input sets of SpecMcmc are finite and not empty.
McmcInputs ==
    /\ Cardinality(McmcXArgs) > 0
    /\ Cardinality(McmcLogProbXArgs) > 0
    /\ Cardinality(McmcDefaultXs) > 0
    /\ Cardinality(McmcSampleShapes) > 0
    /\ Cardinality(MethodStrings) > 0
    /\ Cardinality(MethodArgs) > 0
    /\ Cardinality(Dicts) > 0
    /\ Cardinality(ParameterArgs) > 0
    /\ Cardinality(McmcMethods) > 0
    /\ Cardinality(McmcOptions) > 0
    /\ Cardinality(SampleParams) > 0

InitMcmc ==
    /\ McmcInputs
    /\ Constructed(Min(NumDims))

NextMcmc ==
    \/ Sample(McmcSampleShapes, McmcXArgs, MethodArgs, ParameterArgs)
    \/ LogProb(McmcLogProbXArgs)
    \/ SetDefaultX(McmcDefaultXs)
    \/ SetMcmcMethod
    \/ SetMcmcParameters
    \/ Return

SpecMcmc == InitMcmc /\ [][NextMcmc]_vars

(***************************************************************************)
(* The properties.  They read the call the caller is looking at and the    *)
(* instance; the instance is the one the call ran on, since sample() and   *)
(* log_prob() leave it as it was (C6).                                     *)
(***************************************************************************)

\* The call is a sample() call whose keywords are parameters of sample().
SampleCall == call.op = "sample" /\ DOMAIN call.args \subseteq SampleParams

\* The observation the call is to condition on: the x given, else the
\* default, else None.
TheX == IF call.args.x # None THEN call.args.x ELSE default_x

\* A shape brought to at least two dimensions.
Shape2D(shape) ==
    IF Len(shape) = 0 THEN <<1, 1>>
    ELSE IF Len(shape) = 1 THEN <<1, shape[1]>>
    ELSE shape

\* The observation of the call is there, is a single row, and has the shape
\* of the default if one is stored.
ValidX ==
    /\ TheX # None
    /\ Shape2D(TheX.shape)[1] = 1
    /\ default_x # None => Shape2D(TheX.shape) = default_x.shape

\* The mcmc_method the call is to use: the caller's, else the stored one.
TheMethod ==
    IF call.args.mcmc_method # NoneStr THEN call.args.mcmc_method
    ELSE mcmc_method

\* C1: a sample() call with a valid single-row x returns a tensor of shape
\* (*sample_shape, parameter_dim), for every sample_shape, and asks the
\* backend for product(sample_shape) draws.
C1_SampleShape ==
    (/\ SampleCall
     /\ ValidX
     /\ TheMethod \in McmcMethods
     /\ call.raised # "SamplingError")
    => /\ call.raised = NoError
       /\ call.ret.shape = call.args.sample_shape \o <<parameter_dim>>
       /\ call.backend.num_samples = numel(call.args.sample_shape)

\* C1, for the sample shapes that ask for at least one draw: the shape
\* returned is (*sample_shape, parameter_dim).
C1_ShapeOfNonEmptySample ==
    (/\ SampleCall
     /\ ValidX
     /\ TheMethod \in McmcMethods
     /\ call.raised # "SamplingError"
     /\ \A i \in 1..Len(call.args.sample_shape) : call.args.sample_shape[i] > 0)
    => /\ call.raised = NoError
       /\ call.ret.shape = call.args.sample_shape \o <<parameter_dim>>
       /\ call.backend.num_samples = numel(call.args.sample_shape)

\* C2: sample() with an x (given, or the stored default) of more than one
\* row after the coercion to 2D raises ValidationError and returns nothing,
\* whatever the sample_shape and the MCMC configuration.
C2_BatchedXRejected ==
    (/\ SampleCall
     /\ TheX # None
     /\ Shape2D(TheX.shape)[1] > 1)
    => /\ call.raised = "ValidationError"
       /\ call.ret = None
       /\ call.backend = None

\* C2 happens: the default has several rows, the call gives no x and
\* overrides the MCMC configuration, and it raised ValidationError.
C2_Witness ==
    /\ SampleCall
    /\ call.args.x = None
    /\ default_x # None
    /\ default_x.shape[1] > 1
    /\ call.args.mcmc_method = "slice-np"
    /\ call.args.mcmc_parameters # None
    /\ call.raised = "ValidationError"

\* C3, as claimed: a sample() call with an x whose shape differs from the
\* shape of the x of the sample() call before it, the default not set
\* anew in between, raises ValidationError.
C3_SecondShapeRejected ==
    (/\ SampleCall
     /\ TheX # None
     /\ call.prev # None
     /\ call.prev.shape # Shape2D(TheX.shape))
    => call.raised = "ValidationError"

\* C3, amended: a sample() call with an x whose 2D shape differs from the
\* stored default's raises ValidationError and does not reach the backend;
\* with no default stored, a single-row x of any shape is not rejected,
\* whatever the x of the calls before it.
C3_ShapeCheckedAgainstDefault ==
    /\ (/\ SampleCall
        /\ TheX # None
        /\ default_x # None
        /\ Shape2D(TheX.shape) # default_x.shape)
       => /\ call.raised = "ValidationError"
          /\ call.backend = None
    /\ (/\ SampleCall
        /\ TheX # None
        /\ default_x = None
        /\ Shape2D(TheX.shape)[1] = 1)
       => call.raised # "ValidationError"

\* C3 happens: after a sample() call on the default, a call gives a
\* single-row x of another shape than the single-row default, and it raised
\* ValidationError.
C3_Witness ==
    /\ SampleCall
    /\ call.args.x # None
    /\ default_x # None
    /\ default_x.shape[1] = 1
    /\ Shape2D(call.args.x.shape)[1] = 1
    /\ Shape2D(call.args.x.shape) # default_x.shape
    /\ call.prev # None
    /\ call.prev.shape = default_x.shape
    /\ call.raised = "ValidationError"

\* C4: with no x and no default, sample() and log_prob() raise
\* ConfigurationError; with no x and a default, the default is the
\* observation used; with an x, that x is the one used.
C4_XElseDefaultX ==
    /\ (SampleCall \/ call.op = "log_prob")
       => ((call.args.x = None /\ default_x = None)
           => (call.raised = "ConfigurationError" /\ call.ret = None))
    /\ (SampleCall /\ call.backend # None)
       => /\ TheX # None
          /\ call.backend.x = Tensor(Shape2D(TheX.shape), TheX.val)
    /\ (call.op = "log_prob" /\ call.raised = NoError)
       => /\ TheX # None
          /\ call.x = TheX

\* C4 happens: a default is stored, the call gives another x of the same
\* shape, and the call returned samples.
C4_Witness ==
    /\ SampleCall
    /\ call.args.x # None
    /\ default_x # None
    /\ call.args.x.val # default_x.val
    /\ call.raised = NoError

\* C5: the MCMC configuration given to the backend is the stored defaults
\* merged with the caller's arguments: the caller's mcmc_method if given,
\* else the stored one, and per option the caller's value if
\* mcmc_parameters has the option, else the stored value.
C5_ConfigurationMerged ==
    (SampleCall /\ call.backend # None)
    => /\ call.backend.mcmc_method = TheMethod
       /\ \A k \in McmcOptions :
            /\ k \in DOMAIN call.args.mcmc_parameters
               => /\ k \in DOMAIN call.backend.kwargs
                  /\ call.backend.kwargs[k] = call.args.mcmc_parameters[k]
            /\ (k \notin DOMAIN call.args.mcmc_parameters
                /\ k \in DOMAIN mcmc_parameters)
               => /\ k \in DOMAIN call.backend.kwargs
                  /\ call.backend.kwargs[k] = mcmc_parameters[k]

\* The stored defaults of the instance.
Defaults == <<default_x, mcmc_method, mcmc_parameters>>

\* C6: a sample() or log_prob() call, whether it returns or raises and
\* whatever it is given, leaves the stored default observation,
\* mcmc_method and mcmc_parameters as they were; only the setters change
\* them.
C6_OnlySettersChangeDefaults ==
    [][/\ call'.op \in {"sample", "log_prob"} => Defaults' = Defaults
       /\ Defaults' # Defaults
          => call'.op \in {"set_default_x", "set_mcmc_method",
                           "set_mcmc_parameters"}]_vars

\* C6 happens: a sample() call that gave an x, a method and parameters, all
\* other than the stored ones, has returned samples.
C6_Witness ==
    /\ SampleCall
    /\ call.raised = NoError
    /\ call.args.x # None
    /\ default_x = None
    /\ call.args.mcmc_method # NoneStr
    /\ call.args.mcmc_method # mcmc_method
    /\ call.args.mcmc_parameters # None
    /\ call.args.mcmc_parameters # mcmc_parameters

\* C7: a log_prob() call that returns, returns net.log_prob(x, theta) +
\* prior.log_prob(theta) on the resolved x, one value per row of theta,
\* whether or not gradients are tracked.
C7_LogProbValue ==
    (call.op = "log_prob" /\ call.raised = NoError)
    => /\ call.ret.val = net_log_prob(TheX, call.args.theta)
                         + prior_log_prob(call.args.theta)
       /\ call.ret.shape = <<Shape2D(call.args.theta.shape)[1]>>

\* C7 happens: log_prob() on the stored default, gradients tracked, for a
\* theta the network tells apart from x, has returned.
C7_Witness ==
    /\ call.op = "log_prob"
    /\ call.raised = NoError
    /\ call.args.x = None
    /\ call.args.track_gradients
    /\ call.args.theta.val # default_x.val
    /\ Len(call.args.theta.shape) = 2

\* C8: sample(num_samples=n), with a single-row default observation
\* stored, returns a batch of n draws.
C8_NumSamplesKeyword ==
    (/\ call.op = "sample"
     /\ DOMAIN call.args = {"num_samples"}
     /\ default_x # None
     /\ default_x.shape[1] = 1
     /\ mcmc_method \in McmcMethods
     /\ call.raised # "SamplingError")
    => /\ call.raised = NoError
       /\ call.ret.shape = <<call.args.num_samples, parameter_dim>>

XChecks ==
    <<"_x_else_default_x", "_ensure_single_x",
      "_ensure_x_consistent_with_default_x">>

\* C10: in a sample() call x is resolved, then checked to be a single
\* observation, then checked against the default, all before the MCMC
\* backend is invoked; when one of them fails the backend is not invoked.
C10_ChecksBeforeMcmc ==
    SampleCall
    => /\ \A i \in 1..Len(call.steps) :
            /\ i <= Len(XChecks) => call.steps[i] = XChecks[i]
            /\ call.steps[i] = "_sample_posterior_mcmc" => i > Len(XChecks)
       /\ ~ValidX
          => /\ call.backend = None
             /\ call.raised \in {"ConfigurationError", "ValidationError"}
             /\ \A i \in 1..Len(call.steps) :
                    call.steps[i] # "_sample_posterior_mcmc"

\* C10 happens: a call with a supported method failed at the last of the
\* three checks.
C10_Witness ==
    /\ SampleCall
    /\ TheMethod \in McmcMethods
    /\ call.steps = XChecks
    /\ call.raised = "ValidationError"

====
